---- MODULE Spec2Model ----
\* Model of the decision engine of data_manager.py (ServerRoomDataManager):
\* the hysteresis evaluator, the manual-override window with its expiry
\* threads, and the bus callbacks that drive them.
\*
\* Threads.  The bus client's network loop runs _on_connect, _on_disconnect
\* and _on_message one after another (net_pc is its position).  Every button
\* press starts one more daemon thread running timeout_callback; these
\* threads take no lock, so their statements interleave with the statements
\* of the network thread and with each other.
\*
\* Time is counted in seconds from the first press and advances TickSeconds
\* at a time.  A sleeping thread wakes at or after its wake time, never
\* before.
EXTENDS Integers, Sequences, FiniteSets, TLC

\* ---------------------------------------------------------------- constants
TEMP_HIGH_THRESHOLD == 28
TEMP_LOW_THRESHOLD == 26
HUMIDITY_HIGH_THRESHOLD == 70
HUMIDITY_LOW_THRESHOLD == 65
MANUAL_OVERRIDE_DURATION == 15
MQTT_ERR_SUCCESS == 0

TOPIC_RELAY == "server_room/control/relay"
TOPIC_ALARM == "server_room/alarm"

\* manual_override_end_time = None
None == -1

\* ------------------------------------------------------------------- bounds
TickSeconds == 5
MaxPresses == 2
MaxEvents == 4
MaxRows == 2
\* The relay emulator: clock ticks in a second, how far its clock runs, and
\* how many messages it is sent.
RelayTicksPerSecond == 2
MaxRelayTicks == 3
MaxMessages == 3

\* Readings around the four thresholds: each signal strictly below its low
\* threshold, at it, at its high threshold, or strictly above it.
TLo == TEMP_LOW_THRESHOLD - 1
THi == TEMP_HIGH_THRESHOLD + 1
HLo == HUMIDITY_LOW_THRESHOLD - 1
HHi == HUMIDITY_HIGH_THRESHOLD + 1

Readings ==
    { <<THi, HLo>>, <<TLo, HHi>>, <<THi, HHi>>,
      <<TEMP_HIGH_THRESHOLD, HUMIDITY_HIGH_THRESHOLD>>,
      <<TLo, HLo>>, <<TLo, HUMIDITY_LOW_THRESHOLD>>, <<TEMP_LOW_THRESHOLD, HLo>>,
      <<TEMP_LOW_THRESHOLD, HUMIDITY_LOW_THRESHOLD>> }

\* Return codes of client.publish and of a CONNACK.
PublishRcs == {MQTT_ERR_SUCCESS, 4}

ConnackRcs == {0, 5}

\* Threads started by _activate_manual_override, one per press.
TimerIds == 1..MaxPresses

\* ------------------------------------------------------------ alarm texts
\* A message is the sequence of its words.
\* sep.join(parts)
RECURSIVE Join(_, _)
Join(parts, sep) ==
    IF Len(parts) = 0 THEN << >>
    ELSE IF Len(parts) = 1 THEN parts[1]
    ELSE parts[1] \o <<sep>> \o Join(Tail(parts), sep)

TempHighReason == <<"temp", ">", "TEMP_HIGH_THRESHOLD">>

HumidityHighReason == <<"humidity", ">", "HUMIDITY_HIGH_THRESHOLD">>

BothLowReason ==
    <<"temp", "<", "TEMP_LOW_THRESHOLD", "AND", "humidity", "<", "HUMIDITY_LOW_THRESHOLD">>

AutoAlarm(new_status, trigger_reason) ==
    <<"Cooling", "fan", "turned", new_status, "-">> \o trigger_reason

\* The toggle alarm worded as a change from the old status to the new one.
ManualAlarmArrow(new_status, old_status) ==
    <<"Manual", "button", "toggle", ":", old_status, "->", new_status,
      "-", "Override", "active", "for", "MANUAL_OVERRIDE_DURATION", "s">>

ManualAlarm(new_status, old_status) ==
    <<"Manual", "button", "toggle", ":", "Fan", new_status, "(", "was", old_status, ")",
      "-", "Override", "active", "for", "MANUAL_OVERRIDE_DURATION", "s">>

ExpiryAlarm ==
    <<"Manual", "override", "expired", "-", "Automatic", "control", "resumed">>

\* str.lower() on one word.
LowerWord(w) ==
    CASE w = "ON" -> "on"
      [] w = "OFF" -> "off"
      [] w = "Cooling" -> "cooling"
      [] w = "Manual" -> "manual"
      [] w = "Fan" -> "fan"
      [] w = "Override" -> "override"
      [] w = "Automatic" -> "automatic"
      [] w = "TEMP_HIGH_THRESHOLD" -> "temp_high_threshold"
      [] w = "TEMP_LOW_THRESHOLD" -> "temp_low_threshold"
      [] w = "HUMIDITY_HIGH_THRESHOLD" -> "humidity_high_threshold"
      [] w = "HUMIDITY_LOW_THRESHOLD" -> "humidity_low_threshold"
      [] w = "MANUAL_OVERRIDE_DURATION" -> "manual_override_duration"
      [] w = "AND" -> "and"
      [] w = "OR" -> "or"
      [] OTHER -> w

Lower(message) == [i \in 1..Len(message) |-> LowerWord(message[i])]

\* 'sub in message' / message LIKE '%sub%', on words.
Contains(message, sub) ==
    \E i \in 0..(Len(message) - Len(sub)) :
        \A j \in 1..Len(sub) : message[i + j] = sub[j]

\* WHERE message LIKE '%fan turned%' OR message LIKE '%Manual button toggle%'
\* (LIKE ignores case).
IsTransitionAlarm(message) ==
    \/ Contains(Lower(message), <<"fan", "turned">>)
    \/ Contains(Lower(message), <<"manual", "button", "toggle">>)

\* ORDER BY timestamp DESC LIMIT 1 over the rows the WHERE clause keeps;
\* rows are appended in time order.  0 when there is no such row.
RECURSIVE LatestTransitionRow(_, _)
LatestTransitionRow(table, i) ==
    IF i = 0 THEN 0
    ELSE IF IsTransitionAlarm(table[i]) THEN i
    ELSE LatestTransitionRow(table, i - 1)

\* _get_last_relay_state without the WHERE clause: the newest row decides.
GetLastRelayStateNewestRow(table, readable) ==
    IF ~readable THEN "OFF"
    ELSE LET i == Len(table) IN
         IF i = 0 THEN "OFF"
         ELSE LET message == Lower(table[i]) IN
              IF Contains(message, <<"fan", "on">>) \/ Contains(message, <<"turned", "on">>)
                  THEN "ON"
              ELSE IF Contains(message, <<"fan", "off">>)
                      \/ Contains(message, <<"turned", "off">>)
                  THEN "OFF"
              ELSE "OFF"

\* _get_last_relay_state returning the state as it stands in the lowered
\* message.
GetLastRelayStateLowered(table, readable) ==
    IF ~readable THEN "OFF"
    ELSE LET i == LatestTransitionRow(table, Len(table)) IN
         IF i = 0 THEN "OFF"
         ELSE LET message == Lower(table[i]) IN
              IF Contains(message, <<"fan", "on">>) \/ Contains(message, <<"turned", "on">>)
                  THEN "on"
              ELSE IF Contains(message, <<"fan", "off">>)
                      \/ Contains(message, <<"turned", "off">>)
                  THEN "off"
              ELSE "OFF"

\* _get_last_relay_state; readable = FALSE is the sqlite3 exception path.
GetLastRelayState(table, readable) ==
    IF ~readable THEN "OFF"
    ELSE LET i == LatestTransitionRow(table, Len(table)) IN
         IF i = 0 THEN "OFF"
         ELSE LET message == Lower(table[i]) IN
              IF Contains(message, <<"fan", "on">>) \/ Contains(message, <<"turned", "on">>)
                  THEN "ON"
              ELSE IF Contains(message, <<"fan", "off">>)
                      \/ Contains(message, <<"turned", "off">>)
                  THEN "OFF"
              ELSE "OFF"

\* The alarms table a process can find at start.
BootAlarmTables ==
    { << >>,
      <<ManualAlarm("ON", "OFF"), ExpiryAlarm>> }

\* ------------------------------------------------------------ sensor input
\* A field of the JSON object: a number, a non-numeric text, true or false,
\* or absent.
NumField(v) == [k |-> "num", v |-> v]

BoolField(b) == [k |-> "bool", v |-> IF b THEN 1 ELSE 0]

TextField == [k |-> "text", v |-> 0]

AbsentField == [k |-> "absent", v |-> 0]

\* Payloads on the sensor topic: well-formed readings, objects with a missing
\* or non-numeric field (a text, a boolean), and text that is not JSON.
SensorPayloads ==
    { [json |-> TRUE, temp |-> NumField(r[1]), hum |-> NumField(r[2])] : r \in Readings }
    \cup
    { [json |-> FALSE, temp |-> AbsentField, hum |-> AbsentField],
      [json |-> TRUE, temp |-> TextField, hum |-> NumField(HUMIDITY_LOW_THRESHOLD - 1)],
      [json |-> TRUE, temp |-> BoolField(FALSE), hum |-> NumField(HUMIDITY_LOW_THRESHOLD - 1)],
      [json |-> TRUE, temp |-> AbsentField, hum |-> NumField(HUMIDITY_LOW_THRESHOLD - 1)],
      [json |-> TRUE, temp |-> NumField(TEMP_LOW_THRESHOLD - 1), hum |-> AbsentField] }

\* float(data.get(key, 0)): the default for an absent key is 0; float() of a
\* non-numeric text raises ValueError (ok = FALSE); float(True) is 1.0 and
\* float(False) is 0.0, bool being a subclass of int.
FloatOf(field) ==
    IF field.k = "num" THEN [ok |-> TRUE, v |-> field.v]
    ELSE IF field.k = "bool" THEN [ok |-> TRUE, v |-> field.v]
    ELSE IF field.k = "absent" THEN [ok |-> TRUE, v |-> 0]
    ELSE [ok |-> FALSE, v |-> 0]

\* json.loads followed by the two float() conversions.
ParseSensor(payload) ==
    IF ~payload.json THEN [ok |-> FALSE, temperature |-> 0, humidity |-> 0]
    ELSE [ok |-> FloatOf(payload.temp).ok /\ FloatOf(payload.hum).ok,
          temperature |-> FloatOf(payload.temp).v,
          humidity |-> FloatOf(payload.hum).v]

\* ------------------------------------------------------------------ state
VARIABLES
    now,                        \* time.time(), in seconds
    relay_status,               \* "ON" or "OFF"
    manual_override_active,
    manual_override_end_time,   \* a time, or None
    is_connected,
    last_temperature,           \* None before the first reading
    last_humidity,
    sensor_data_count,
    alarm_count,
    net_pc,                     \* where the network thread is
    old_status,                 \* local of _handle_button_press
    timers,                     \* the timeout_callback threads
    published,                  \* what was handed to client.publish, in order
    sensor_data,                \* table sensor_data
    alarms,                     \* table alarms
    boot_rows,                  \* rows of alarms present at process start
    boot_readable,              \* whether _get_last_relay_state could read them
    thresholds,                 \* the four module-level hysteresis thresholds
    events                      \* callbacks delivered plus external calls failed

\* The relay emulator, a process of its own (src/emulators/relay_emulator.py).
VARIABLES
    fan_status,                 \* "ON" or "OFF"
    command_count,
    last_message,               \* the last payload not filtered out, or NoMessage
    last_message_time,
    relay_clock,                \* the emulator's time.time(), in ticks
    received                    \* the messages delivered to the emulator, in order

engine_vars ==
    <<now, relay_status, manual_override_active, manual_override_end_time, is_connected,
      last_temperature, last_humidity, sensor_data_count, alarm_count, net_pc, old_status,
      timers, published, sensor_data, alarms, boot_rows, boot_readable, thresholds,
      events>>

emulator_vars ==
    <<fan_status, command_count, last_message, last_message_time, relay_clock, received>>

vars == <<engine_vars, emulator_vars>>

\* self.last_message = None
NoMessage == <<"None">>

\* RelayEmulator.__init__
EmulatorInit ==
    /\ fan_status = "OFF"
    /\ command_count = 0
    /\ last_message = NoMessage
    /\ last_message_time = 0
    /\ relay_clock = 0
    /\ received = << >>

\* What is fixed when the process starts.
start_vars == <<boot_rows, boot_readable, thresholds>>

override_vars == <<manual_override_active, manual_override_end_time>>

reading_vars == <<last_temperature, last_humidity, sensor_data_count, sensor_data>>

\* Threads started so far.
Started == {i \in TimerIds : timers[i].pc /= "unborn"}

\* What a step takes from the environment (a callback delivered, calls that
\* fail) fits the budget.
Charge(n) == events + n <= MaxEvents /\ events' = events + n

\* ------------------------------------------------------------- evaluator
\* The thresholds as the module assigns them.  They are module globals, looked
\* up at every evaluation.
ModuleThresholds ==
    [temp_high |-> TEMP_HIGH_THRESHOLD, temp_low |-> TEMP_LOW_THRESHOLD,
     humidity_high |-> HUMIDITY_HIGH_THRESHOLD, humidity_low |-> HUMIDITY_LOW_THRESHOLD]

\* The reason list built when the relay is OFF.
HighReasons(temperature, humidity) ==
    (IF temperature > thresholds.temp_high THEN <<TempHighReason>> ELSE << >>)
    \o (IF humidity > thresholds.humidity_high THEN <<HumidityHighReason>> ELSE << >>)

\* Hysteresis with the ON rule asking for both signals above their high
\* thresholds.
HysteresisOnNeedsBoth(status, temperature, humidity) ==
    IF status = "OFF"
    THEN IF temperature > thresholds.temp_high /\ humidity > thresholds.humidity_high
         THEN [new_status |-> "ON",
               trigger_reason |-> Join(HighReasons(temperature, humidity), "OR")]
         ELSE [new_status |-> status, trigger_reason |-> << >>]
    ELSE IF status = "ON"
    THEN IF temperature < thresholds.temp_low /\ humidity < thresholds.humidity_low
         THEN [new_status |-> "OFF", trigger_reason |-> BothLowReason]
         ELSE [new_status |-> status, trigger_reason |-> << >>]
    ELSE [new_status |-> status, trigger_reason |-> << >>]

\* Hysteresis with the OFF rule content with one signal below its low
\* threshold.
HysteresisOffOnEither(status, temperature, humidity) ==
    IF status = "OFF"
    THEN IF temperature > thresholds.temp_high \/ humidity > thresholds.humidity_high
         THEN [new_status |-> "ON",
               trigger_reason |-> Join(HighReasons(temperature, humidity), "OR")]
         ELSE [new_status |-> status, trigger_reason |-> << >>]
    ELSE IF status = "ON"
    THEN IF temperature < thresholds.temp_low \/ humidity < thresholds.humidity_low
         THEN [new_status |-> "OFF", trigger_reason |-> BothLowReason]
         ELSE [new_status |-> status, trigger_reason |-> << >>]
    ELSE [new_status |-> status, trigger_reason |-> << >>]

\* Hysteresis with the comparisons not strict.
HysteresisNotStrict(status, temperature, humidity) ==
    IF status = "OFF"
    THEN IF temperature >= thresholds.temp_high \/ humidity >= thresholds.humidity_high
         THEN [new_status |-> "ON",
               trigger_reason |-> Join(HighReasons(temperature, humidity), "OR")]
         ELSE [new_status |-> status, trigger_reason |-> << >>]
    ELSE IF status = "ON"
    THEN IF temperature <= thresholds.temp_low /\ humidity <= thresholds.humidity_low
         THEN [new_status |-> "OFF", trigger_reason |-> BothLowReason]
         ELSE [new_status |-> status, trigger_reason |-> << >>]
    ELSE [new_status |-> status, trigger_reason |-> << >>]

\* The hysteresis rule of _apply_hysteresis_logic: new_status and trigger_reason.
Hysteresis(status, temperature, humidity) ==
    IF status = "OFF"
    THEN IF temperature > thresholds.temp_high \/ humidity > thresholds.humidity_high
         THEN [new_status |-> "ON",
               trigger_reason |-> Join(HighReasons(temperature, humidity), "OR")]
         ELSE [new_status |-> status, trigger_reason |-> << >>]
    ELSE IF status = "ON"
    THEN IF temperature < thresholds.temp_low /\ humidity < thresholds.humidity_low
         THEN [new_status |-> "OFF", trigger_reason |-> BothLowReason]
         ELSE [new_status |-> status, trigger_reason |-> << >>]
    ELSE [new_status |-> status, trigger_reason |-> << >>]

\* new_status = "OFF" if self.relay_status == "ON" else "ON"
Toggle(status) == IF status = "ON" THEN "OFF" ELSE "ON"

\* time.time() + MANUAL_OVERRIDE_DURATION
OverrideEnd(t) == t + MANUAL_OVERRIDE_DURATION

\* ------------------------------------------------------------- publishing
RelayMessage(command, rc) ==
    [topic |-> TOPIC_RELAY, payload |-> <<command>>, level |-> "", rc |-> rc]

AlarmMessage(message, rc) ==
    [topic |-> TOPIC_ALARM, payload |-> message, level |-> "warning", rc |-> rc]

\* _publish_relay_command with the connection test the wrong way round.
PublishRelayCommandInverted(log, connected, command, rc) ==
    IF connected THEN log ELSE Append(log, RelayMessage(command, rc))

\* _publish_relay_command: nothing is handed to the client while
\* is_connected is false; otherwise client.publish is called and returns rc.
PublishRelayCommand(log, connected, command, rc) ==
    IF ~connected THEN log ELSE Append(log, RelayMessage(command, rc))

\* _publish_alarm, likewise.
PublishAlarm(log, connected, message, rc) ==
    IF ~connected THEN log ELSE Append(log, AlarmMessage(message, rc))

\* alarm_count += 1 on a successful alarm publish.
CountAlarm(count, connected, rc) ==
    IF connected /\ rc = MQTT_ERR_SUCCESS THEN count + 1 ELSE count

\* DatabaseManager.store_alarm: the row is appended unless sqlite3 raises
\* (ok = FALSE), which is logged and returns False.
StoreAlarm(table, message, ok) == IF ok THEN Append(table, message) ELSE table

\* DatabaseManager.store_sensor_data, likewise.  The engine never reads the
\* table back; it is kept as its row count and its newest row.
StoreSensorData(table, temperature, humidity, ok) ==
    IF ok THEN [rows |-> table.rows + 1, newest |-> <<temperature, humidity>>] ELSE table

\* External calls that fail: a publish with rc /= MQTT_ERR_SUCCESS, a
\* sqlite3 error, a refused CONNACK.
Bad(rc) == IF rc = MQTT_ERR_SUCCESS THEN 0 ELSE 1

Miss(ok) == IF ok THEN 0 ELSE 1

\* ServerRoomDataManager.__init__.  _get_last_relay_state runs before
\* DatabaseManager() creates the tables: on a first start the alarms table
\* does not exist yet, the query raises, and the table is then created empty
\* (a later start that finds the table empty begins in the same state but for
\* boot_readable).
Init ==
    /\ now = 0
    /\ alarms \in BootAlarmTables
    /\ boot_rows = Len(alarms)
    /\ boot_readable = (alarms /= << >>)
    /\ relay_status = GetLastRelayState(alarms, boot_readable)
    /\ thresholds = ModuleThresholds
    /\ manual_override_active = FALSE
    /\ manual_override_end_time = None
    /\ is_connected = FALSE
    /\ last_temperature = None
    /\ last_humidity = None
    /\ sensor_data_count = 0
    /\ alarm_count = 0
    /\ net_pc = "idle"
    /\ old_status = ""
    /\ timers = [i \in TimerIds |-> [pc |-> "unborn", wake |-> 0]]
    /\ published = << >>
    /\ sensor_data = [rows |-> 0, newest |-> << >>]
    /\ events = 0
    /\ EmulatorInit

\* A thread still inside time.sleep whose wake time lies ahead.
Sleeping == {i \in TimerIds : timers[i].pc = "sleep" /\ now < timers[i].wake}

\* The clock.  It is read only when the press handler arms the window and
\* when a sleeping thread wakes, so it is advanced between handlers, and
\* only while some thread sleeps: at other times no step depends on how
\* much time passes.
Tick ==
    /\ net_pc = "idle"
    /\ Sleeping /= {}
    /\ now' = now + TickSeconds
    /\ UNCHANGED <<relay_status, override_vars, is_connected, reading_vars, alarm_count,
                   net_pc, old_status, timers, published, alarms, start_vars, emulator_vars, events>>

\* _on_connect publishing the status restored at start instead of the
\* current one.
OnConnectStale ==
    /\ net_pc = "idle"
    /\ ~is_connected
    /\ \E rc \in ConnackRcs, prc \in PublishRcs :
        IF rc = 0
        THEN /\ Charge(1 + Bad(prc))
             /\ is_connected' = TRUE
             /\ published' =
                    PublishRelayCommand(published, is_connected',
                                        GetLastRelayState(SubSeq(alarms, 1, boot_rows), boot_readable),
                                        prc)
        ELSE /\ prc = MQTT_ERR_SUCCESS
             /\ Charge(1)
             /\ UNCHANGED <<is_connected, published>>
    /\ UNCHANGED <<now, relay_status, override_vars, reading_vars, alarm_count, net_pc,
                   old_status, timers, alarms, start_vars, emulator_vars>>

\* _on_connect: on rc = 0 set is_connected, subscribe, publish relay_status.
OnConnect ==
    /\ net_pc = "idle"
    /\ ~is_connected
    /\ \E rc \in ConnackRcs, prc \in PublishRcs :
        IF rc = 0
        THEN /\ Charge(1 + Bad(prc))
             /\ is_connected' = TRUE
             /\ published' = PublishRelayCommand(published, is_connected', relay_status, prc)
        ELSE /\ prc = MQTT_ERR_SUCCESS
             /\ Charge(1)
             /\ UNCHANGED <<is_connected, published>>
    /\ UNCHANGED <<now, relay_status, override_vars, reading_vars, alarm_count, net_pc,
                   old_status, timers, alarms, start_vars, emulator_vars>>

\* _on_disconnect switching the fan off as a fail-safe.
OnDisconnectSwitchesOff ==
    /\ net_pc = "idle"
    /\ is_connected
    /\ Charge(1)
    /\ is_connected' = FALSE
    /\ relay_status' = "OFF"
    /\ UNCHANGED <<now, override_vars, reading_vars, alarm_count, net_pc,
                   old_status, timers, published, alarms, start_vars, emulator_vars>>

\* _on_disconnect
OnDisconnect ==
    /\ net_pc = "idle"
    /\ is_connected
    /\ Charge(1)
    /\ is_connected' = FALSE
    /\ UNCHANGED <<now, relay_status, override_vars, reading_vars, alarm_count, net_pc,
                   old_status, timers, published, alarms, start_vars, emulator_vars>>

\* _handle_sensor_data not storing the reading while an override is active.
SensorReceivedNotStoredInOverride(payload) ==
    /\ net_pc = "idle"
    /\ is_connected
    /\ \E db_ok \in BOOLEAN :
        LET r == ParseSensor(payload) IN
        IF r.ok
        THEN /\ manual_override_active => db_ok
             /\ Charge(1 + Miss(db_ok))
             /\ last_temperature' = r.temperature
             /\ last_humidity' = r.humidity
             /\ sensor_data_count' = sensor_data_count + 1
             /\ sensor_data' =
                    IF manual_override_active THEN sensor_data
                    ELSE StoreSensorData(sensor_data, r.temperature, r.humidity, db_ok)
             /\ net_pc' = "hysteresis"
        ELSE /\ db_ok
             /\ Charge(1)
             /\ UNCHANGED <<reading_vars, net_pc>>
    /\ UNCHANGED <<now, relay_status, override_vars, is_connected, alarm_count, old_status,
                   timers, published, alarms, start_vars, emulator_vars>>

\* _handle_sensor_data(payload) up to the call of _apply_hysteresis_logic:
\* parse, update the last-reading fields, store the reading.  A payload that
\* does not parse is logged and dropped.
SensorReceived(payload) ==
    /\ net_pc = "idle"
    /\ is_connected
    /\ \E db_ok \in BOOLEAN :
        LET r == ParseSensor(payload) IN
        IF r.ok
        THEN /\ Charge(1 + Miss(db_ok))
             /\ last_temperature' = r.temperature
             /\ last_humidity' = r.humidity
             /\ sensor_data_count' = sensor_data_count + 1
             /\ sensor_data' = StoreSensorData(sensor_data, r.temperature, r.humidity, db_ok)
             /\ net_pc' = "hysteresis"
        ELSE /\ db_ok
             /\ Charge(1)
             /\ UNCHANGED <<reading_vars, net_pc>>
    /\ UNCHANGED <<now, relay_status, override_vars, is_connected, alarm_count, old_status,
                   timers, published, alarms, start_vars, emulator_vars>>

\* _on_message with a message on the sensor topic.
HandleSensorData == \E payload \in SensorPayloads : SensorReceived(payload)

\* _check_manual_override
CheckManualOverride(active) == active

\* _apply_hysteresis_logic publishing the relay command on every evaluation,
\* changed or not.
ApplyHysteresisLogicRepublishes ==
    /\ net_pc = "hysteresis"
    /\ net_pc' = "idle"
    /\ IF CheckManualOverride(manual_override_active)
       THEN UNCHANGED <<relay_status, published, alarm_count, alarms, events>>
       ELSE LET h == Hysteresis(relay_status, last_temperature, last_humidity) IN
            IF h.new_status /= relay_status
            THEN \E rrc \in PublishRcs, arc \in PublishRcs, db_ok \in BOOLEAN :
                 LET alarm_message == AutoAlarm(h.new_status, h.trigger_reason) IN
                 /\ Charge(Bad(rrc) + Bad(arc) + Miss(db_ok))
                 /\ relay_status' = h.new_status
                 /\ published' =
                        PublishAlarm(
                            PublishRelayCommand(published, is_connected, h.new_status, rrc),
                            is_connected, alarm_message, arc)
                 /\ alarm_count' = CountAlarm(alarm_count, is_connected, arc)
                 /\ alarms' = StoreAlarm(alarms, alarm_message, db_ok)
            ELSE /\ published' =
                        PublishRelayCommand(published, is_connected, relay_status,
                                            MQTT_ERR_SUCCESS)
                 /\ UNCHANGED <<relay_status, alarm_count, alarms, events>>
    /\ UNCHANGED <<now, override_vars, is_connected, reading_vars, old_status, timers,
                   start_vars, emulator_vars>>

\* _apply_hysteresis_logic taking the new status back when the alarm cannot
\* be stored.
ApplyHysteresisLogicRollsBack ==
    /\ net_pc = "hysteresis"
    /\ net_pc' = "idle"
    /\ IF CheckManualOverride(manual_override_active)
       THEN UNCHANGED <<relay_status, published, alarm_count, alarms, events>>
       ELSE LET h == Hysteresis(relay_status, last_temperature, last_humidity) IN
            IF h.new_status /= relay_status
            THEN \E rrc \in PublishRcs, arc \in PublishRcs, db_ok \in BOOLEAN :
                 LET alarm_message == AutoAlarm(h.new_status, h.trigger_reason) IN
                 /\ Charge(Bad(rrc) + Bad(arc) + Miss(db_ok))
                 /\ relay_status' = IF db_ok THEN h.new_status ELSE relay_status
                 /\ published' =
                        PublishAlarm(
                            PublishRelayCommand(published, is_connected, h.new_status, rrc),
                            is_connected, alarm_message, arc)
                 /\ alarm_count' = CountAlarm(alarm_count, is_connected, arc)
                 /\ alarms' = StoreAlarm(alarms, alarm_message, db_ok)
            ELSE UNCHANGED <<relay_status, published, alarm_count, alarms, events>>
    /\ UNCHANGED <<now, override_vars, is_connected, reading_vars, old_status, timers,
                   start_vars, emulator_vars>>

\* _apply_hysteresis_logic without its try/except: an alarm that cannot be
\* stored raises out of the handler and ends the network thread.
ApplyHysteresisLogicRaises ==
    /\ net_pc = "hysteresis"
    /\ IF CheckManualOverride(manual_override_active)
       THEN /\ net_pc' = "idle"
            /\ UNCHANGED <<relay_status, published, alarm_count, alarms, events>>
       ELSE LET h == Hysteresis(relay_status, last_temperature, last_humidity) IN
            IF h.new_status /= relay_status
            THEN \E rrc \in PublishRcs, arc \in PublishRcs, db_ok \in BOOLEAN :
                 LET alarm_message == AutoAlarm(h.new_status, h.trigger_reason) IN
                 /\ Charge(Bad(rrc) + Bad(arc) + Miss(db_ok))
                 /\ relay_status' = h.new_status
                 /\ published' =
                        PublishAlarm(
                            PublishRelayCommand(published, is_connected, h.new_status, rrc),
                            is_connected, alarm_message, arc)
                 /\ alarm_count' = CountAlarm(alarm_count, is_connected, arc)
                 /\ alarms' = StoreAlarm(alarms, alarm_message, db_ok)
                 /\ net_pc' = IF db_ok THEN "idle" ELSE "raised"
            ELSE /\ net_pc' = "idle"
                 /\ UNCHANGED <<relay_status, published, alarm_count, alarms, events>>
    /\ UNCHANGED <<now, override_vars, is_connected, reading_vars, old_status, timers,
                   start_vars, emulator_vars>>

\* _apply_hysteresis_logic with an override test that ends the window
\* itself once the clock has reached its end time.
ApplyHysteresisLogicEndsOverride ==
    /\ net_pc = "hysteresis"
    /\ net_pc' = "idle"
    /\ LET due == manual_override_end_time /= None /\ now >= manual_override_end_time IN
       /\ manual_override_active' = IF due THEN FALSE ELSE manual_override_active
       /\ manual_override_end_time' = IF due THEN None ELSE manual_override_end_time
       /\ IF CheckManualOverride(manual_override_active /\ ~due)
          THEN UNCHANGED <<relay_status, published, alarm_count, alarms, events>>
          ELSE LET h == Hysteresis(relay_status, last_temperature, last_humidity) IN
               IF h.new_status /= relay_status
               THEN \E rrc \in PublishRcs, arc \in PublishRcs, db_ok \in BOOLEAN :
                    LET alarm_message == AutoAlarm(h.new_status, h.trigger_reason) IN
                    /\ Charge(Bad(rrc) + Bad(arc) + Miss(db_ok))
                    /\ relay_status' = h.new_status
                    /\ published' =
                           PublishAlarm(
                               PublishRelayCommand(published, is_connected, h.new_status, rrc),
                               is_connected, alarm_message, arc)
                    /\ alarm_count' = CountAlarm(alarm_count, is_connected, arc)
                    /\ alarms' = StoreAlarm(alarms, alarm_message, db_ok)
               ELSE UNCHANGED <<relay_status, published, alarm_count, alarms, events>>
    /\ UNCHANGED <<now, is_connected, reading_vars, old_status, timers, start_vars, emulator_vars>>

\* _apply_hysteresis_logic(temperature, humidity)
ApplyHysteresisLogic ==
    /\ net_pc = "hysteresis"
    /\ net_pc' = "idle"
    /\ IF CheckManualOverride(manual_override_active)
       THEN UNCHANGED <<relay_status, published, alarm_count, alarms, events>>
       ELSE LET h == Hysteresis(relay_status, last_temperature, last_humidity) IN
            IF h.new_status /= relay_status
            THEN \E rrc \in PublishRcs, arc \in PublishRcs, db_ok \in BOOLEAN :
                 LET alarm_message == AutoAlarm(h.new_status, h.trigger_reason) IN
                 /\ Charge(Bad(rrc) + Bad(arc) + Miss(db_ok))
                 /\ relay_status' = h.new_status
                 /\ published' =
                        PublishAlarm(
                            PublishRelayCommand(published, is_connected, h.new_status, rrc),
                            is_connected, alarm_message, arc)
                 /\ alarm_count' = CountAlarm(alarm_count, is_connected, arc)
                 /\ alarms' = StoreAlarm(alarms, alarm_message, db_ok)
            ELSE UNCHANGED <<relay_status, published, alarm_count, alarms, events>>
    /\ UNCHANGED <<now, override_vars, is_connected, reading_vars, old_status, timers,
                   start_vars, emulator_vars>>

\* _handle_button_press leaving the relay alone when an override is already
\* active, and only re-arming the window.
HandleButtonPressKeepsRelayInOverride ==
    /\ net_pc = "idle"
    /\ is_connected
    /\ Cardinality(Started) < MaxPresses
    /\ old_status' = relay_status
    /\ relay_status' = IF manual_override_active THEN relay_status ELSE Toggle(relay_status)
    /\ \E rc \in PublishRcs :
        /\ Charge(1 + Bad(rc))
        /\ published' =
               IF manual_override_active THEN published
               ELSE PublishRelayCommand(published, is_connected, relay_status', rc)
        /\ manual_override_active => rc = MQTT_ERR_SUCCESS
    /\ manual_override_active' = TRUE
    /\ net_pc' = "arm"
    /\ UNCHANGED <<now, manual_override_end_time, is_connected, reading_vars, alarm_count,
                   timers, alarms, start_vars, emulator_vars>>

\* _handle_button_press publishing the status it read instead of the one it
\* has just written.
HandleButtonPressPublishesOld ==
    /\ net_pc = "idle"
    /\ is_connected
    /\ Cardinality(Started) < MaxPresses
    /\ old_status' = relay_status
    /\ relay_status' = Toggle(relay_status)
    /\ \E rc \in PublishRcs :
        /\ Charge(1 + Bad(rc))
        /\ published' = PublishRelayCommand(published, is_connected, old_status', rc)
    /\ manual_override_active' = TRUE
    /\ net_pc' = "arm"
    /\ UNCHANGED <<now, manual_override_end_time, is_connected, reading_vars, alarm_count,
                   timers, alarms, start_vars, emulator_vars>>

\* _handle_button_press up to the first statement of _activate_manual_override:
\* flip relay_status, publish it, set manual_override_active.
HandleButtonPress ==
    /\ net_pc = "idle"
    /\ is_connected
    /\ Cardinality(Started) < MaxPresses
    /\ old_status' = relay_status
    /\ relay_status' = Toggle(relay_status)
    /\ \E rc \in PublishRcs :
        /\ Charge(1 + Bad(rc))
        /\ published' = PublishRelayCommand(published, is_connected, relay_status', rc)
    /\ manual_override_active' = TRUE
    /\ net_pc' = "arm"
    /\ UNCHANGED <<now, manual_override_end_time, is_connected, reading_vars, alarm_count,
                   timers, alarms, start_vars, emulator_vars>>

\* The rest of _activate_manual_override and of _handle_button_press: set the
\* end time, start the expiry thread, publish and store the toggle alarm.
ActivateManualOverride ==
    /\ net_pc = "arm"
    /\ net_pc' = "idle"
    /\ manual_override_end_time' = OverrideEnd(now)
    /\ LET id == Cardinality(Started) + 1 IN
       timers' = [timers EXCEPT ![id] = [pc |-> "sleep", wake |-> now + MANUAL_OVERRIDE_DURATION]]
    /\ \E rc \in PublishRcs, db_ok \in BOOLEAN :
        LET alarm_message == ManualAlarm(relay_status, old_status) IN
        /\ Charge(Bad(rc) + Miss(db_ok))
        /\ published' = PublishAlarm(published, is_connected, alarm_message, rc)
        /\ alarm_count' = CountAlarm(alarm_count, is_connected, rc)
        /\ alarms' = StoreAlarm(alarms, alarm_message, db_ok)
    /\ UNCHANGED <<now, relay_status, manual_override_active, is_connected, reading_vars,
                   old_status, start_vars, emulator_vars>>

\* timeout_callback: time.sleep returns, and the thread tests
\* manual_override_active.
TimeoutWake(i) ==
    /\ timers[i].pc = "sleep"
    /\ now >= timers[i].wake
    /\ timers' = [timers EXCEPT ![i].pc =
                     IF manual_override_active THEN "clear_active" ELSE "done"]
    /\ UNCHANGED <<now, relay_status, override_vars, is_connected, reading_vars, alarm_count,
                   net_pc, old_status, published, alarms, start_vars, emulator_vars, events>>

\* timeout_callback without the write of manual_override_active.
TimeoutClearActiveForgotten(i) ==
    /\ timers[i].pc = "clear_active"
    /\ timers' = [timers EXCEPT ![i].pc = "clear_end"]
    /\ UNCHANGED <<now, relay_status, override_vars, is_connected, reading_vars,
                   alarm_count, net_pc, old_status, published, alarms, start_vars, emulator_vars, events>>

\* timeout_callback: self.manual_override_active = False
TimeoutClearActive(i) ==
    /\ timers[i].pc = "clear_active"
    /\ manual_override_active' = FALSE
    /\ timers' = [timers EXCEPT ![i].pc = "clear_end"]
    /\ UNCHANGED <<now, relay_status, manual_override_end_time, is_connected, reading_vars,
                   alarm_count, net_pc, old_status, published, alarms, start_vars, emulator_vars, events>>

\* timeout_callback evaluating the last reading again once the window is
\* cleared.
TimeoutClearEndReevaluates(i) ==
    /\ timers[i].pc = "clear_end"
    /\ manual_override_end_time' = None
    /\ timers' = [timers EXCEPT ![i].pc = "done"]
    /\ relay_status' =
           IF last_temperature = None THEN relay_status
           ELSE Hysteresis(relay_status, last_temperature, last_humidity).new_status
    /\ \E rc \in PublishRcs, db_ok \in BOOLEAN :
        /\ Charge((IF is_connected THEN Bad(rc) ELSE 0) + Miss(db_ok))
        /\ ~is_connected => rc = MQTT_ERR_SUCCESS
        /\ published' =
               LET log == PublishAlarm(published, is_connected, ExpiryAlarm, rc) IN
               IF relay_status' = relay_status THEN log
               ELSE PublishRelayCommand(log, is_connected, relay_status', MQTT_ERR_SUCCESS)
        /\ alarm_count' = CountAlarm(alarm_count, is_connected, rc)
        /\ alarms' = StoreAlarm(alarms, ExpiryAlarm, db_ok)
    /\ UNCHANGED <<now, manual_override_active, is_connected, reading_vars,
                   net_pc, old_status, start_vars, emulator_vars>>

\* timeout_callback: self.manual_override_end_time = None, then publish and
\* store the expiry alarm.
TimeoutClearEnd(i) ==
    /\ timers[i].pc = "clear_end"
    /\ manual_override_end_time' = None
    /\ timers' = [timers EXCEPT ![i].pc = "done"]
    /\ \E rc \in PublishRcs, db_ok \in BOOLEAN :
        /\ Charge((IF is_connected THEN Bad(rc) ELSE 0) + Miss(db_ok))
        /\ ~is_connected => rc = MQTT_ERR_SUCCESS
        /\ published' = PublishAlarm(published, is_connected, ExpiryAlarm, rc)
        /\ alarm_count' = CountAlarm(alarm_count, is_connected, rc)
        /\ alarms' = StoreAlarm(alarms, ExpiryAlarm, db_ok)
    /\ UNCHANGED <<now, relay_status, manual_override_active, is_connected, reading_vars,
                   net_pc, old_status, start_vars, emulator_vars>>

Next ==
    \/ Tick
    \/ OnConnect
    \/ OnDisconnect
    \/ HandleSensorData
    \/ ApplyHysteresisLogic
    \/ HandleButtonPress
    \/ ActivateManualOverride
    \/ \E i \in TimerIds : TimeoutWake(i)
    \/ \E i \in TimerIds : TimeoutClearActive(i)
    \/ \E i \in TimerIds : TimeoutClearEnd(i)

Spec == Init /\ [][Next]_vars

\* The same, with the scheduling the interpreter gives its threads: the
\* clock advances, a handler that has started runs on, and a thread whose
\* sleep has ended runs on.
LiveSpec ==
    /\ Spec
    /\ WF_vars(Tick)
    /\ WF_vars(ApplyHysteresisLogic)
    /\ WF_vars(ActivateManualOverride)
    /\ \A i \in TimerIds :
        WF_vars(TimeoutWake(i)) /\ WF_vars(TimeoutClearActive(i)) /\ WF_vars(TimeoutClearEnd(i))

\* ------------------------------------------------------- restore at start
\* Rows an alarms table can hold: the alarms this program writes, and a
\* transition-like row of another origin that names no state.
ForeignAlarm == <<"Cooling", "fan", "turned", "STANDBY">>

RestoreRows ==
    { AutoAlarm("ON", TempHighReason), AutoAlarm("OFF", BothLowReason),
      ManualAlarm("ON", "OFF"), ManualAlarm("OFF", "ON"), ExpiryAlarm, ForeignAlarm }

RestoreTables == UNION { [1..n -> RestoreRows] : n \in 0..MaxRows }

\* ServerRoomDataManager.__init__ before line 212: relay_status is not yet
\* assigned; the database file holds any table, readable or not.
RestoreInit ==
    /\ now = 0
    /\ alarms \in RestoreTables
    /\ boot_rows = Len(alarms)
    /\ boot_readable \in BOOLEAN
    /\ relay_status = ""
    /\ thresholds = ModuleThresholds
    /\ manual_override_active = FALSE
    /\ manual_override_end_time = None
    /\ is_connected = FALSE
    /\ last_temperature = None
    /\ last_humidity = None
    /\ sensor_data_count = 0
    /\ alarm_count = 0
    /\ net_pc = "init"
    /\ old_status = ""
    /\ timers = [i \in TimerIds |-> [pc |-> "unborn", wake |-> 0]]
    /\ published = << >>
    /\ sensor_data = [rows |-> 0, newest |-> << >>]
    /\ events = 0
    /\ EmulatorInit

\* self.relay_status = self._get_last_relay_state()
Restore ==
    /\ net_pc = "init"
    /\ relay_status' = GetLastRelayState(alarms, boot_readable)
    /\ net_pc' = "idle"
    /\ UNCHANGED <<now, override_vars, is_connected, reading_vars, alarm_count, old_status,
                   timers, published, alarms, start_vars, emulator_vars, events>>

RestoreNext == Restore

RestoreSpec == RestoreInit /\ [][RestoreNext]_vars

\* ------------------------------------------------- configured thresholds
\* The thresholds with the two temperature values exchanged.
SwappedThresholds ==
    [temp_high |-> TEMP_LOW_THRESHOLD, temp_low |-> TEMP_HIGH_THRESHOLD,
     humidity_high |-> HUMIDITY_HIGH_THRESHOLD, humidity_low |-> HUMIDITY_LOW_THRESHOLD]

\* Values the four assignments of lines 42-45 are set to by a deployment.
ConfiguredThresholds == {ModuleThresholds, SwappedThresholds}

\* ServerRoomDataManager.__init__ on a first start (no alarms yet), whatever
\* the thresholds are: neither the module nor __init__ nor run() compares them.
ConfigInit ==
    /\ now = 0
    /\ alarms = << >>
    /\ boot_rows = 0
    /\ boot_readable = FALSE
    /\ relay_status = GetLastRelayState(alarms, boot_readable)
    /\ thresholds \in ConfiguredThresholds
    /\ manual_override_active = FALSE
    /\ manual_override_end_time = None
    /\ is_connected = FALSE
    /\ last_temperature = None
    /\ last_humidity = None
    /\ sensor_data_count = 0
    /\ alarm_count = 0
    /\ net_pc = "idle"
    /\ old_status = ""
    /\ timers = [i \in TimerIds |-> [pc |-> "unborn", wake |-> 0]]
    /\ published = << >>
    /\ sensor_data = [rows |-> 0, newest |-> << >>]
    /\ events = 0
    /\ EmulatorInit

ConfigSpec == ConfigInit /\ [][Next]_vars

\* ------------------------------------- the transition handlers, by statement
\* The network thread alone, with the two handlers that change relay_status
\* taken one statement at a time, so that the order of their writes and
\* calls shows from one state to the next.  The expiry threads a press
\* starts do not run here.
\*
\* _apply_hysteresis_logic with self.relay_status = new_status put off until
\* after the publishing and the storing (and so not modelled further).
AutoSetStatusDeferred ==
    /\ net_pc = "hysteresis"
    /\ LET h == Hysteresis(relay_status, last_temperature, last_humidity) IN
       IF ~CheckManualOverride(manual_override_active) /\ h.new_status /= relay_status
       THEN /\ old_status' = relay_status
            /\ net_pc' = "auto_relay"
            /\ UNCHANGED relay_status
       ELSE /\ net_pc' = "idle"
            /\ UNCHANGED <<relay_status, old_status>>
    /\ UNCHANGED <<now, override_vars, is_connected, reading_vars, alarm_count, timers,
                   published, alarms, start_vars, emulator_vars, events>>

\* _apply_hysteresis_logic up to and including self.relay_status = new_status.
AutoSetStatus ==
    /\ net_pc = "hysteresis"
    /\ LET h == Hysteresis(relay_status, last_temperature, last_humidity) IN
       IF ~CheckManualOverride(manual_override_active) /\ h.new_status /= relay_status
       THEN /\ old_status' = relay_status
            /\ relay_status' = h.new_status
            /\ net_pc' = "auto_relay"
       ELSE /\ net_pc' = "idle"
            /\ UNCHANGED <<relay_status, old_status>>
    /\ UNCHANGED <<now, override_vars, is_connected, reading_vars, alarm_count, timers,
                   published, alarms, start_vars, emulator_vars, events>>

\* self._publish_relay_command(new_status), new_status being the local the
\* rule gave for old_status and the reading.
AutoPublishRelay ==
    /\ net_pc = "auto_relay"
    /\ net_pc' = "auto_alarm"
    /\ \E rc \in PublishRcs :
        LET h == Hysteresis(old_status, last_temperature, last_humidity) IN
        /\ Charge(Bad(rc))
        /\ published' = PublishRelayCommand(published, is_connected, h.new_status, rc)
    /\ UNCHANGED <<now, relay_status, override_vars, is_connected, reading_vars, alarm_count,
                   old_status, timers, alarms, start_vars, emulator_vars>>

\* alarm_message = f"Cooling fan turned ..."; self._publish_alarm(alarm_message)
AutoPublishAlarm ==
    /\ net_pc = "auto_alarm"
    /\ net_pc' = "auto_store"
    /\ \E rc \in PublishRcs :
        LET h == Hysteresis(old_status, last_temperature, last_humidity) IN
        /\ Charge(Bad(rc))
        /\ published' = PublishAlarm(published, is_connected,
                                     AutoAlarm(h.new_status, h.trigger_reason), rc)
        /\ alarm_count' = CountAlarm(alarm_count, is_connected, rc)
    /\ UNCHANGED <<now, relay_status, override_vars, is_connected, reading_vars,
                   old_status, timers, alarms, start_vars, emulator_vars>>

\* self.db_manager.store_alarm(alarm_message), and the handler returns.
AutoStoreAlarm ==
    /\ net_pc = "auto_store"
    /\ net_pc' = "idle"
    /\ \E db_ok \in BOOLEAN :
        LET h == Hysteresis(old_status, last_temperature, last_humidity) IN
        /\ Charge(Miss(db_ok))
        /\ alarms' = StoreAlarm(alarms, AutoAlarm(h.new_status, h.trigger_reason), db_ok)
    /\ UNCHANGED <<now, relay_status, override_vars, is_connected, reading_vars, alarm_count,
                   old_status, timers, published, start_vars, emulator_vars>>


\* _handle_button_press up to and including self.relay_status = new_status.
PressSetStatus ==
    /\ net_pc = "idle"
    /\ is_connected
    /\ Cardinality(Started) < MaxPresses
    /\ Charge(1)
    /\ old_status' = relay_status
    /\ relay_status' = Toggle(relay_status)
    /\ net_pc' = "press_relay"
    /\ UNCHANGED <<now, override_vars, is_connected, reading_vars, alarm_count, timers,
                   published, alarms, start_vars, emulator_vars>>

\* self._publish_relay_command(new_status), new_status being the local
\* computed from old_status.
PressPublishRelay ==
    /\ net_pc = "press_relay"
    /\ net_pc' = "press_arm"
    /\ \E rc \in PublishRcs :
        /\ Charge(Bad(rc))
        /\ published' = PublishRelayCommand(published, is_connected, Toggle(old_status), rc)
    /\ UNCHANGED <<now, relay_status, override_vars, is_connected, reading_vars, alarm_count,
                   old_status, timers, alarms, start_vars, emulator_vars>>

\* self._activate_manual_override()
PressArm ==
    /\ net_pc = "press_arm"
    /\ net_pc' = "press_alarm"
    /\ manual_override_active' = TRUE
    /\ manual_override_end_time' = OverrideEnd(now)
    /\ LET id == Cardinality(Started) + 1 IN
       timers' = [timers EXCEPT ![id] = [pc |-> "sleep", wake |-> now + MANUAL_OVERRIDE_DURATION]]
    /\ UNCHANGED <<now, relay_status, is_connected, reading_vars, alarm_count, old_status,
                   published, alarms, start_vars, emulator_vars, events>>

\* alarm_message = f"Manual button toggle: ..."; self._publish_alarm(alarm_message)
PressPublishAlarm ==
    /\ net_pc = "press_alarm"
    /\ net_pc' = "press_store"
    /\ \E rc \in PublishRcs :
        /\ Charge(Bad(rc))
        /\ published' = PublishAlarm(published, is_connected,
                                     ManualAlarm(Toggle(old_status), old_status), rc)
        /\ alarm_count' = CountAlarm(alarm_count, is_connected, rc)
    /\ UNCHANGED <<now, relay_status, override_vars, is_connected, reading_vars,
                   old_status, timers, alarms, start_vars, emulator_vars>>

\* self.db_manager.store_alarm(alarm_message), and the handler returns.
PressStoreAlarm ==
    /\ net_pc = "press_store"
    /\ net_pc' = "idle"
    /\ \E db_ok \in BOOLEAN :
        /\ Charge(Miss(db_ok))
        /\ alarms' = StoreAlarm(alarms, ManualAlarm(Toggle(old_status), old_status), db_ok)
    /\ UNCHANGED <<now, relay_status, override_vars, is_connected, reading_vars, alarm_count,
                   old_status, timers, published, start_vars, emulator_vars>>

OrderNext ==
    \/ OnConnect
    \/ OnDisconnect
    \/ HandleSensorData
    \/ AutoSetStatus
    \/ AutoPublishRelay
    \/ AutoPublishAlarm
    \/ AutoStoreAlarm
    \/ PressSetStatus
    \/ PressPublishRelay
    \/ PressArm
    \/ PressPublishAlarm
    \/ PressStoreAlarm

OrderSpec == Init /\ [][OrderNext]_vars

\* ------------------------------------------------------ the relay emulator
\* Payload text is a sequence of characters.
OnText == <<"O", "N">>

OffText == <<"O", "F", "F">>

\* Messages on the relay topic: the two commands, a command in lower case
\* with white space around it, a word that is no command, and bytes that are
\* not UTF-8.
RelayMessages ==
    { [utf8 |-> TRUE, text |-> OnText],
      [utf8 |-> TRUE, text |-> OffText],
      [utf8 |-> TRUE, text |-> <<" ", "o", "n", "\n">>],
      [utf8 |-> TRUE, text |-> <<"T", "O", "G", "G", "L", "E">>],
      [utf8 |-> FALSE, text |-> << >>] }

\* str.strip()
Whitespace == {" ", "\n"}

RECURSIVE StripLeft(_)
StripLeft(text) ==
    IF text /= << >> /\ Head(text) \in Whitespace THEN StripLeft(Tail(text)) ELSE text

RECURSIVE StripRight(_)
StripRight(text) ==
    IF text /= << >> /\ text[Len(text)] \in Whitespace
    THEN StripRight(SubSeq(text, 1, Len(text) - 1))
    ELSE text

Strip(text) == StripRight(StripLeft(text))

\* str.upper(), one character at a time.
UpperChar(c) ==
    CASE c = "o" -> "O"
      [] c = "n" -> "N"
      [] c = "f" -> "F"
      [] OTHER -> c

Upper(text) == [i \in 1..Len(text) |-> UpperChar(text[i])]

\* msg.payload.decode('utf-8').strip().upper()
Decode(msg) == Upper(Strip(msg.text))

\* current_time - self.last_message_time < 1.0
DuplicateWindow == 1 * RelayTicksPerSecond

\* _handle_relay_command: the fan_status it leaves.
HandleRelayCommand(status, command) ==
    IF command = OnText THEN "ON"
    ELSE IF command = OffText THEN "OFF"
    ELSE status

\* The emulator's clock.
EmulatorTick ==
    /\ relay_clock < MaxRelayTicks
    /\ relay_clock' = relay_clock + 1
    /\ UNCHANGED <<engine_vars, fan_status, command_count, last_message, last_message_time,
                   received>>

\* _on_message with a filter that drops whatever comes within a second of
\* the last message, the same payload or not.
EmulatorOnMessageRateLimited(msg) ==
    /\ Len(received) < MaxMessages
    /\ received' = Append(received, msg)
    /\ IF ~msg.utf8
       THEN UNCHANGED <<fan_status, command_count, last_message, last_message_time>>
       ELSE LET payload == Decode(msg) IN
            IF last_message /= NoMessage /\ relay_clock - last_message_time < DuplicateWindow
            THEN UNCHANGED <<fan_status, command_count, last_message, last_message_time>>
            ELSE /\ last_message' = payload
                 /\ last_message_time' = relay_clock
                 /\ command_count' = command_count + 1
                 /\ fan_status' = HandleRelayCommand(fan_status, payload)
    /\ UNCHANGED <<engine_vars, relay_clock>>

\* RelayEmulator._on_message(msg), with the _handle_relay_command it calls.
\* Bytes that do not decode raise, and the exception is logged.
EmulatorOnMessage(msg) ==
    /\ Len(received) < MaxMessages
    /\ received' = Append(received, msg)
    /\ IF ~msg.utf8
       THEN UNCHANGED <<fan_status, command_count, last_message, last_message_time>>
       ELSE LET payload == Decode(msg) IN
            IF last_message = payload /\ relay_clock - last_message_time < DuplicateWindow
            THEN UNCHANGED <<fan_status, command_count, last_message, last_message_time>>
            ELSE /\ last_message' = payload
                 /\ last_message_time' = relay_clock
                 /\ command_count' = command_count + 1
                 /\ fan_status' = HandleRelayCommand(fan_status, payload)
    /\ UNCHANGED <<engine_vars, relay_clock>>

EmulatorReceive == \E msg \in RelayMessages : EmulatorOnMessage(msg)

EmulatorNext == EmulatorTick \/ EmulatorReceive

\* The emulator on its own, next to an engine that does nothing.
EmulatorSpec == Init /\ [][EmulatorNext]_vars

\* ------------------------------------------------------------- vocabulary
\* The messages a step hands to client.publish.
Handed == SubSeq(published', Len(published) + 1, Len(published'))

\* Those of them the client accepted, on one topic.
Accepted(topic) ==
    {k \in 1..Len(Handed) : Handed[k].topic = topic /\ Handed[k].rc = MQTT_ERR_SUCCESS}

\* The thread started by the latest press; 0 before the first press.
LatestTimer == Cardinality(Started)

\* Program steps, by what they complete.
SensorEvaluated == net_pc = "hysteresis" /\ net_pc' = "idle"

PressCompleted == net_pc = "arm" /\ net_pc' = "idle"

\* The relay state restored at process start.
RestoredStatus == GetLastRelayState(SubSeq(alarms, 1, boot_rows), boot_readable)

\* ------------------------------------------------------------------ C1
\* C1: after two presses at t1 < t2 < t1 + D the override is one window
\* expiring at t2 + D: at every time before t2 + D it is still active, with
\* that expiry, and no expiry alarm has been raised for it.
C1_SecondPressOwnsWindow ==
    \A i, j \in Started :
        ( /\ j = LatestTimer
          /\ net_pc = "idle"
          /\ timers[i].wake < timers[j].wake
          /\ timers[j].wake < timers[i].wake + MANUAL_OVERRIDE_DURATION
          /\ now < timers[j].wake )
        => /\ manual_override_active
           /\ manual_override_end_time = timers[j].wake
           /\ timers[j].pc = "sleep"

\* ------------------------------------------------------------------ C2
\* C2: when a press is handled at the instant an earlier window expires,
\* then once the press and that expiry thread have both finished the
\* override is active and expires D after the press.
C2_PressWinsRace ==
    \A i, j \in Started :
        ( /\ j = LatestTimer
          /\ net_pc = "idle"
          /\ timers[j].wake = timers[i].wake + MANUAL_OVERRIDE_DURATION
          /\ timers[i].pc = "done"
          /\ timers[j].pc = "sleep" )
        => /\ manual_override_active
           /\ manual_override_end_time = timers[j].wake

\* ------------------------------------------------------------------ C3
\* The window of the latest press has not reached its expiry time.
WindowOpen == LatestTimer > 0 /\ now < timers[LatestTimer].wake

\* C3: from a press until D later (or the next press), evaluating a sensor
\* reading leaves relay_status alone and publishes nothing.
C3_OverrideSuppressesSensor ==
    [][(SensorEvaluated /\ WindowOpen)
            => (relay_status' = relay_status /\ published' = published)]_vars

\* The part of C3 the code keeps: a reading evaluated while
\* manual_override_active is set changes nothing.
C3_FlagSuppressesSensor ==
    [][(SensorEvaluated /\ manual_override_active)
            => (relay_status' = relay_status /\ published' = published)]_vars

\* ------------------------------------------------------------------ C4
\* C4: a step that changes relay_status gets exactly one RelayCommand with
\* the new state accepted by the bus, and every transition gets exactly one
\* AlarmEvent accepted (for a press, when the press handler completes).
C4_TransitionPublishesPair ==
    [][ /\ (relay_status' /= relay_status)
            => /\ Cardinality(Accepted(TOPIC_RELAY)) = 1
               /\ \A k \in Accepted(TOPIC_RELAY) : Handed[k].payload = <<relay_status'>>
        /\ ((relay_status' /= relay_status /\ SensorEvaluated) \/ PressCompleted)
            => Cardinality(Accepted(TOPIC_ALARM)) = 1 ]_vars

\* ------------------------------------------------------------------ C5
\* An expiry thread between its test of manual_override_active and its last
\* write.
InCallback(i) == timers[i].pc \in {"clear_active", "clear_end"}

\* C5: the handlers are serialized: no expiry callback is part-way through
\* while a sensor or press handler is part-way through, and no two expiry
\* callbacks are part-way through together.
C5_HandlersSerialized ==
    /\ \A i \in TimerIds : ~(InCallback(i) /\ net_pc /= "idle")
    /\ \A i, j \in TimerIds : (InCallback(i) /\ InCallback(j)) => i = j

\* ------------------------------------------------------------------ C6
\* C6: as soon as the bus has connected, and so before any sensor reading
\* is evaluated or any press applied, the first message handed to the bus
\* is the RelayCommand carrying the restored relay state.
C6_ResyncBeforeEvaluation ==
    (is_connected \/ sensor_data_count > 0 \/ Started /= {} \/ net_pc /= "idle")
        => /\ published /= << >>
           /\ published[1].topic = TOPIC_RELAY
           /\ published[1].payload = <<RestoredStatus>>

\* A start with restored state ON, resynchronised, after which a reading
\* has been evaluated and has turned the relay OFF.
C6_Witness ==
    /\ RestoredStatus = "ON"
    /\ published /= << >>
    /\ published[1] = RelayMessage("ON", MQTT_ERR_SUCCESS)
    /\ sensor_data_count > 0
    /\ net_pc = "idle"
    /\ relay_status = "OFF"

\* ------------------------------------------------------------------ C7
\* C7: the step that connects hands exactly one message to the bus, the
\* RelayCommand carrying the relay state held at that moment.
C7_ConnectRepublishesCurrent ==
    [][(~is_connected /\ is_connected')
            => /\ Len(Handed) = 1
               /\ Handed[1].topic = TOPIC_RELAY
               /\ Handed[1].payload = <<relay_status>>
               /\ relay_status' = relay_status]_vars

\* A reconnect after a press: the last message is the RelayCommand of the
\* current state, which is not the restored one, right after the alarm of
\* the press.
C7_Witness ==
    /\ is_connected
    /\ net_pc = "idle"
    /\ Len(published) >= 3
    /\ published[Len(published)] = RelayMessage(relay_status, MQTT_ERR_SUCCESS)
    /\ published[Len(published) - 1].topic = TOPIC_ALARM
    /\ relay_status /= RestoredStatus

ExceededReason(temperature, humidity) ==
    IF temperature > TEMP_HIGH_THRESHOLD /\ humidity > HUMIDITY_HIGH_THRESHOLD
    THEN TempHighReason \o <<"OR">> \o HumidityHighReason
    ELSE IF temperature > TEMP_HIGH_THRESHOLD THEN TempHighReason
    ELSE HumidityHighReason

\* C9: in automatic mode with the relay OFF, evaluating a reading turns the
\* relay ON exactly when temperature > T_high or humidity > H_high, and the
\* alarm then names exactly the exceeded thresholds, joined by OR.
C9_OnIffEitherHigh ==
    [][(SensorEvaluated /\ ~manual_override_active /\ relay_status = "OFF")
            => /\ (relay_status' = "ON")
                    <=> (\/ last_temperature > TEMP_HIGH_THRESHOLD
                         \/ last_humidity > HUMIDITY_HIGH_THRESHOLD)
               /\ (relay_status' = "ON")
                    => \E k \in 1..Len(Handed) :
                        /\ Handed[k].topic = TOPIC_ALARM
                        /\ Handed[k].payload =
                              AutoAlarm("ON", ExceededReason(last_temperature, last_humidity))
       ]_vars

\* A reading above both high thresholds has turned the relay ON, with both
\* named in the alarm.
C9_Witness ==
    /\ net_pc = "idle"
    /\ relay_status = "ON"
    /\ last_temperature > TEMP_HIGH_THRESHOLD
    /\ last_humidity > HUMIDITY_HIGH_THRESHOLD
    /\ published /= << >>
    /\ published[Len(published)].payload
          = AutoAlarm("ON", TempHighReason \o <<"OR">> \o HumidityHighReason)

\* ------------------------------------------------------------------ C10
\* C10: in automatic mode with the relay ON, evaluating a reading turns the
\* relay OFF exactly when temperature < T_low and humidity < H_low.
C10_OffIffBothLow ==
    [][(SensorEvaluated /\ ~manual_override_active /\ relay_status = "ON")
            => ((relay_status' = "OFF")
                    <=> (/\ last_temperature < TEMP_LOW_THRESHOLD
                         /\ last_humidity < HUMIDITY_LOW_THRESHOLD))]_vars

\* A reading below both low thresholds has turned the relay OFF.
C10_Witness ==
    /\ net_pc = "idle"
    /\ relay_status = "OFF"
    /\ last_temperature = TLo
    /\ last_humidity = HLo
    /\ published /= << >>
    /\ published[Len(published)].payload = AutoAlarm("OFF", BothLowReason)

\* ------------------------------------------------------------------ C11
\* A reading inside the band, bounds included.
InBand(temperature, humidity) ==
    /\ TEMP_LOW_THRESHOLD <= temperature /\ temperature <= TEMP_HIGH_THRESHOLD
    /\ HUMIDITY_LOW_THRESHOLD <= humidity /\ humidity <= HUMIDITY_HIGH_THRESHOLD

\* C11: evaluating a reading with T_low <= temperature <= T_high and
\* H_low <= humidity <= H_high never changes the relay state, whether it is
\* ON or OFF.
C11_InBandNoTransition ==
    [][(SensorEvaluated /\ InBand(last_temperature, last_humidity))
            => relay_status' = relay_status]_vars

\* In automatic mode, never overridden, a reading exactly at both high
\* thresholds has been evaluated and the relay is still OFF as restored.
C11_Witness ==
    /\ net_pc = "idle"
    /\ Started = {}
    /\ sensor_data_count > 0
    /\ last_temperature = TEMP_HIGH_THRESHOLD
    /\ last_humidity = HUMIDITY_HIGH_THRESHOLD
    /\ relay_status = "OFF"
    /\ Len(published) = 1

\* ------------------------------------------------------------------ C12
\* C12: an evaluation that leaves relay_status as it was hands nothing to
\* the bus and stores no alarm.
C12_NoOpEmitsNothing ==
    [][(SensorEvaluated /\ relay_status' = relay_status)
            => /\ published' = published
               /\ alarm_count' = alarm_count
               /\ alarms' = alarms]_vars

\* In automatic mode a reading above both high thresholds has been evaluated
\* with the relay already ON: only the resynchronising RelayCommand was ever
\* handed to the bus and no alarm was stored.
C12_Witness ==
    /\ net_pc = "idle"
    /\ Started = {}
    /\ sensor_data_count = 1
    /\ last_temperature = THi
    /\ last_humidity = HHi
    /\ relay_status = "ON"
    /\ published = <<RelayMessage("ON", MQTT_ERR_SUCCESS)>>
    /\ Len(alarms) = boot_rows

\* ------------------------------------------------------------------ C13
\* The press handler's first part: relay flipped, command published, flag set.
PressApplied == net_pc = "idle" /\ net_pc' = "arm"

Opposite(status) == CHOOSE other \in {"ON", "OFF"} : other /= status

\* C13: every handled press, with or without an override already active,
\* flips relay_status and hands the bus one RelayCommand carrying the new
\* state, sets the override with expiry now + D, and hands the bus one alarm
\* naming the new state and the previous one.
C13_PressEffects ==
    [][ /\ PressApplied
            => /\ relay_status \in {"ON", "OFF"}
               /\ relay_status' = Opposite(relay_status)
               /\ manual_override_active'
               /\ Len(Handed) = 1
               /\ Handed[1].topic = TOPIC_RELAY
               /\ Handed[1].payload = <<relay_status'>>
        /\ PressCompleted
            => /\ manual_override_end_time' = now + MANUAL_OVERRIDE_DURATION
               /\ relay_status' = relay_status
               /\ Len(Handed) = 1
               /\ Handed[1].topic = TOPIC_ALARM
               /\ Contains(Handed[1].payload, <<"Fan", relay_status>>)
               /\ Contains(Handed[1].payload, <<"was", Opposite(relay_status), ")">>)
      ]_vars

\* A second press handled while the window of the first is still running:
\* the relay is back at its first state, the window ends D from now, and the
\* last message is the alarm of the second toggle.
C13_Witness ==
    /\ net_pc = "idle"
    /\ Cardinality(Started) = 2
    /\ timers[1].pc = "sleep"
    /\ now < timers[1].wake
    /\ manual_override_active
    /\ manual_override_end_time = now + MANUAL_OVERRIDE_DURATION
    /\ relay_status = RestoredStatus
    /\ published[Len(published)].payload = ManualAlarm(relay_status, Opposite(relay_status))

\* ------------------------------------------------------------------ C14
\* A step of an expiry thread, from the end of its sleep on.
ExpiryStep ==
    \E i \in TimerIds :
        timers[i].pc \in {"sleep", "clear_active", "clear_end"} /\ timers'[i].pc /= timers[i].pc

ExpiryCleared ==
    \E i \in TimerIds : timers[i].pc = "clear_active" /\ timers'[i].pc = "clear_end"

ExpiryAnnounced ==
    \E i \in TimerIds : timers[i].pc = "clear_end" /\ timers'[i].pc = "done"

\* C14: an expiry clears manual_override_active and manual_override_end_time
\* and raises one 'override expired' alarm (handed to the bus when it is
\* connected); no expiry step changes relay_status, hands a RelayCommand to
\* the bus, or touches the reading or the network thread.
C14_ExpiryLeavesRelay ==
    [][ /\ ExpiryStep
            => /\ relay_status' = relay_status
               /\ \A k \in 1..Len(Handed) : Handed[k].topic /= TOPIC_RELAY
               /\ UNCHANGED <<net_pc, reading_vars>>
        /\ ExpiryCleared => ~manual_override_active'
        /\ (ExpiryStep /\ ~ExpiryAnnounced) => published' = published /\ alarms' = alarms
        /\ ExpiryAnnounced
            => /\ manual_override_end_time' = None
               /\ Handed = IF is_connected
                           THEN <<AlarmMessage(ExpiryAlarm, Handed[1].rc)>>
                           ELSE << >>
               /\ alarms' \in {alarms, Append(alarms, ExpiryAlarm)}
      ]_vars

\* An override has expired with the bus connected: the expiry alarm is the
\* last message, and the relay keeps the state the press gave it although
\* the last reading, recorded during the override, asks for the other one.
C14_Witness ==
    /\ net_pc = "idle"
    /\ is_connected
    /\ Cardinality(Started) = 1
    /\ timers[1].pc = "done"
    /\ ~manual_override_active
    /\ manual_override_end_time = None
    /\ published[Len(published)].payload = ExpiryAlarm
    /\ relay_status /= RestoredStatus
    /\ last_temperature /= None
    /\ Hysteresis(relay_status, last_temperature, last_humidity).new_status /= relay_status

\* ------------------------------------------------------------------ C15
\* C15: relay_status changes only in the press handler and in an evaluation
\* of a reading, in automatic mode, to the state the hysteresis rule gives;
\* connect, disconnect, publish, store and expiry steps never change it.
C15_RelayWrittenByPipelineOnly ==
    [][(relay_status' /= relay_status)
            => \/ PressApplied
               \/ /\ SensorEvaluated
                  /\ ~manual_override_active
                  /\ relay_status' =
                         Hysteresis(relay_status, last_temperature, last_humidity).new_status
      ]_vars

\* The relay was switched ON by a press and by nothing else (no reading was
\* ever received); the window has expired and the bus has disconnected
\* since, and the relay is still ON.
C15_Witness ==
    /\ net_pc = "idle"
    /\ ~is_connected
    /\ sensor_data_count = 0
    /\ Cardinality(Started) = 1
    /\ timers[1].pc = "done"
    /\ RestoredStatus = "OFF"
    /\ relay_status = "ON"
    /\ Len(alarms) > boot_rows

\* ------------------------------------------------------------------ C16
\* A transition alarm, and the state it names: 'Cooling fan turned <state>'
\* or 'Manual button toggle: Fan <state> (was ...)'.
NamesTransition(row) ==
    \/ Len(row) >= 4 /\ SubSeq(row, 1, 3) = <<"Cooling", "fan", "turned">>
    \/ Len(row) >= 6 /\ SubSeq(row, 1, 3) = <<"Manual", "button", "toggle">>

NamedState(row) == IF row[1] = "Cooling" THEN row[4] ELSE row[6]

TransitionRows(table) == {i \in 1..Len(table) : NamesTransition(table[i])}

LastKnownRelayState(table, readable) ==
    IF ~readable \/ TransitionRows(table) = {} THEN "OFF"
    ELSE LET newest == CHOOSE i \in TransitionRows(table) :
                           \A j \in TransitionRows(table) : j <= i
         IN  IF NamedState(table[newest]) \in {"ON", "OFF"}
             THEN NamedState(table[newest])
             ELSE "OFF"

\* C16: the relay state restored at start is the state named by the most
\* recent transition alarm in the store, and OFF when there is none, when
\* the store cannot be read, or when that alarm names neither state.
C16_RestoreLastKnown ==
    (net_pc = "idle") => relay_status = LastKnownRelayState(alarms, boot_readable)

\* Restored ON from a manual toggle to ON that is followed by an expiry
\* alarm, which is the newest row but no transition.
C16_Witness ==
    /\ net_pc = "idle"
    /\ boot_readable
    /\ Len(alarms) = 2
    /\ alarms[1] = ManualAlarm("ON", "OFF")
    /\ alarms[2] = ExpiryAlarm
    /\ relay_status = "ON"

\* ------------------------------------------------------------------ C17
\* A JSON object with a numeric temperature and a numeric humidity.
WellFormed(payload) == payload.json /\ payload.temp.k = "num" /\ payload.hum.k = "num"

\* C17: when a well-formed reading is received, in automatic mode or in
\* manual override, it is stored (the row is there unless the store call
\* itself failed) before the evaluation step, which is still to come; and
\* an evaluation in manual override leaves relay_status alone.
C17_RecordedBeforeEvaluated ==
    [][ /\ \A payload \in SensorPayloads :
            (WellFormed(payload) /\ SensorReceived(payload))
                => /\ net_pc' = "hysteresis"
                   /\ \/ sensor_data' = [rows |-> sensor_data.rows + 1,
                                         newest |-> <<payload.temp.v, payload.hum.v>>]
                      \/ sensor_data' = sensor_data /\ events' = events + 2
                   /\ relay_status' = relay_status
                   /\ published' = published
        /\ (SensorEvaluated /\ manual_override_active)
            => /\ relay_status' = relay_status
               /\ alarms' = alarms
      ]_vars

\* A reading received during a manual override is in the store and waits for
\* its evaluation; evaluated in automatic mode it would switch the relay.
C17_Witness ==
    /\ net_pc = "hysteresis"
    /\ manual_override_active
    /\ sensor_data_count = 1
    /\ sensor_data = [rows |-> 1, newest |-> <<last_temperature, last_humidity>>]
    /\ Hysteresis(relay_status, last_temperature, last_humidity).new_status /= relay_status

\* ------------------------------------------------------------------ C18
\* C18: a well-formed reading whose store call fails still sets the
\* last-reading fields and goes on to its evaluation; and an evaluation in
\* automatic mode gives relay_status the value of the hysteresis rule and,
\* on a change, hands the RelayCommand and the alarm to the bus, whether the
\* alarm could be stored or not.
C18_PersistenceNeverBlocks ==
    [][ /\ \A payload \in SensorPayloads :
            (WellFormed(payload) /\ SensorReceived(payload) /\ sensor_data' = sensor_data)
                => /\ net_pc' = "hysteresis"
                   /\ last_temperature' = payload.temp.v
                   /\ last_humidity' = payload.hum.v
        /\ (SensorEvaluated /\ ~manual_override_active)
            => LET h == Hysteresis(relay_status, last_temperature, last_humidity) IN
               /\ relay_status' = h.new_status
               /\ (h.new_status /= relay_status)
                    => /\ Len(Handed) = 2
                       /\ Handed[1].topic = TOPIC_RELAY
                       /\ Handed[1].payload = <<h.new_status>>
                       /\ Handed[2].topic = TOPIC_ALARM
                       /\ Handed[2].payload = AutoAlarm(h.new_status, h.trigger_reason)
                       /\ alarms' \in {alarms, Append(alarms, Handed[2].payload)}
      ]_vars

\* Neither the reading nor the alarm could be stored, and still the reading
\* has switched the relay and both messages were handed to the bus.
C18_Witness ==
    /\ net_pc = "idle"
    /\ Started = {}
    /\ sensor_data_count = 1
    /\ sensor_data.rows = 0
    /\ Len(alarms) = boot_rows
    /\ relay_status /= RestoredStatus
    /\ Len(published) = 3
    /\ published[2] = RelayMessage(relay_status, MQTT_ERR_SUCCESS)
    /\ published[3].topic = TOPIC_ALARM

\* ------------------------------------------------------------------ C19
\* A payload that is not JSON, or whose temperature or humidity is not a
\* number (a text, true or false).
Malformed(payload) ==
    \/ ~payload.json
    \/ payload.temp.k \in {"text", "bool"}
    \/ payload.hum.k \in {"text", "bool"}

\* C19: handling a malformed sensor message changes neither the relay, nor
\* the override, nor the last-reading fields, the counter or the stored
\* readings, publishes and stores nothing, and leaves the network thread
\* ready for the next message.
C19_MalformedDropped ==
    [][\A payload \in SensorPayloads :
            (Malformed(payload) /\ SensorReceived(payload))
                => /\ UNCHANGED <<relay_status, override_vars, reading_vars, published, alarms>>
                   /\ net_pc' = "idle"]_vars

\* The part of C19 the code keeps: a payload on which json.loads or float()
\* raises is dropped with nothing changed.
C19_RejectedDropped ==
    [][\A payload \in SensorPayloads :
            (~ParseSensor(payload).ok /\ SensorReceived(payload))
                => /\ UNCHANGED <<relay_status, override_vars, reading_vars, published, alarms>>
                   /\ net_pc' = "idle"]_vars

\* ------------------------------------------------------------------ C20
\* T_low >= T_high or H_low >= H_high.
Inconsistent(band) ==
    band.temp_low >= band.temp_high \/ band.humidity_low >= band.humidity_high

\* C20: with an inconsistent band the process refuses to run: it never
\* connects, no reading is ever received or evaluated, and no RelayCommand
\* is ever published.
C20_InconsistentBandRefused ==
    Inconsistent(thresholds)
        => /\ ~is_connected
           /\ sensor_data_count = 0
           /\ published = << >>

\* --------------------------------------------------------------------- C21
\* C21: no failure inside a handler ends the engine.  Whatever a publish or a
\* store has returned, the network thread is waiting for a message or inside
\* a handler whose next step it can take, an expiry thread that has passed
\* its test can run on to its end, and a connected engine between messages
\* takes the next sensor message and the next press (as long as the run has
\* events and presses left).
C21_HandlersReturn ==
    /\ net_pc \in {"idle", "hysteresis", "arm"}
    /\ net_pc = "hysteresis" => ENABLED ApplyHysteresisLogic
    /\ net_pc = "arm" => ENABLED ActivateManualOverride
    /\ \A i \in TimerIds :
        /\ timers[i].pc \in {"unborn", "sleep", "clear_active", "clear_end", "done"}
        /\ timers[i].pc = "clear_active" => ENABLED TimeoutClearActive(i)
        /\ timers[i].pc = "clear_end" => ENABLED TimeoutClearEnd(i)
    /\ (net_pc = "idle" /\ is_connected /\ events < MaxEvents)
           => /\ ENABLED HandleSensorData
              /\ Cardinality(Started) < MaxPresses => ENABLED HandleButtonPress

\* A press whose relay command was refused and whose toggle alarm could not
\* be stored; the handler returned, and the expiry that came later was still
\* handled and stored its own alarm.
C21_Witness ==
    /\ net_pc = "idle"
    /\ Len(published) >= 2
    /\ published[2].topic = TOPIC_RELAY
    /\ published[2].rc /= MQTT_ERR_SUCCESS
    /\ timers[1].pc = "done"
    /\ Len(alarms) = boot_rows + 1
    /\ alarms[Len(alarms)] = ExpiryAlarm

\* --------------------------------------------------------------------- C22
\* C22: every alarm handed to the client has a level in {info, warning}; the
\* 'Manual override expired' alarm is informational, and an alarm that
\* describes a relay transition is a warning.
C22_AlarmLevels ==
    \A k \in 1..Len(published) :
        published[k].topic = TOPIC_ALARM =>
            /\ published[k].level \in {"info", "warning"}
            /\ published[k].payload = ExpiryAlarm => published[k].level = "info"
            /\ published[k].payload /= ExpiryAlarm => published[k].level = "warning"

\* The part that holds: every alarm is published as a warning.
C22_AlarmsAreWarnings ==
    \A k \in 1..Len(published) :
        published[k].topic = TOPIC_ALARM => published[k].level = "warning"

\* --------------------------------------------------------------------- C23
\* C23: the override is over once the clock has reached the end of the
\* current window.  A reading handled at or after manual_override_end_time is
\* evaluated by the hysteresis rules, never skipped as 'manual override'.
C23_DueWindowDoesNotSuppress ==
    [][(/\ SensorEvaluated
        /\ manual_override_end_time /= None
        /\ now >= manual_override_end_time)
       => relay_status' =
              Hysteresis(relay_status, last_temperature, last_humidity).new_status]_vars

\* What the code guarantees instead: a reading is evaluated whenever the
\* flag is clear, whatever the clock says.
C23_ClearFlagEvaluates ==
    [][(SensorEvaluated /\ ~manual_override_active)
       => relay_status' =
              Hysteresis(relay_status, last_temperature, last_humidity).new_status]_vars

\* --------------------------------------------------------------------- C24
\* C24: in a transition the relay state is written first, then the
\* RelayCommand is published, then the alarm, then the alarm is stored.  A
\* RelayCommand carries the relay_status held when it is handed to the bus;
\* a transition alarm is handed over when the last message on the bus is the
\* RelayCommand of the state it names; and a transition alarm is stored when
\* the last message on the bus is that same alarm.  The statement that
\* writes relay_status publishes and stores nothing.
C24_TransitionOrder ==
    [][ /\ \A k \in 1..Len(Handed) :
              /\ Handed[k].topic = TOPIC_RELAY
                     => /\ Handed[k].payload = <<relay_status>>
                        /\ relay_status' = relay_status
              /\ Handed[k].topic = TOPIC_ALARM
                     => /\ NamesTransition(Handed[k].payload)
                        /\ NamedState(Handed[k].payload) = relay_status
                        /\ published /= << >>
                        /\ published[Len(published)].topic = TOPIC_RELAY
                        /\ published[Len(published)].payload = <<relay_status>>
                        /\ alarms' = alarms
        /\ alarms' /= alarms
               => /\ Handed = << >>
                  /\ published /= << >>
                  /\ published[Len(published)].topic = TOPIC_ALARM
                  /\ published[Len(published)].payload = alarms'[Len(alarms')]
                  /\ NamedState(alarms'[Len(alarms')]) = relay_status
        /\ relay_status' /= relay_status
               => Handed = << >> /\ alarms' = alarms
      ]_vars

\* An automatic transition all of whose calls have been made: the relay
\* state is not the restored one, the log ends with the RelayCommand and the
\* alarm of the transition in that order, and the alarm is the newest row.
C24_Witness ==
    /\ net_pc = "idle"
    /\ Started = {}
    /\ relay_status /= RestoredStatus
    /\ Len(published) = 3
    /\ published[2].topic = TOPIC_RELAY
    /\ published[2].payload = <<relay_status>>
    /\ published[3].topic = TOPIC_ALARM
    /\ Len(alarms) = boot_rows + 1
    /\ alarms[Len(alarms)] = published[3].payload

\* --------------------------------------------------------------------- C25
\* A step of the sensor handler: the reading is taken in, or it is evaluated.
SensorStep == (net_pc = "idle" /\ net_pc' = "hysteresis") \/ SensorEvaluated

\* C25: handling a sensor reading leaves manual_override_active and
\* manual_override_end_time as they were.  The flag is set and the end time
\* given only by a button press, and both are cleared only by an expiry
\* thread.
C25_SensorLeavesOverride ==
    [][ /\ SensorStep => UNCHANGED override_vars
        /\ (manual_override_active' /\ ~manual_override_active) => PressApplied
        /\ (manual_override_end_time' \notin {None, manual_override_end_time})
               => PressCompleted
        /\ (manual_override_active /\ ~manual_override_active') => ExpiryCleared
        /\ (manual_override_end_time /= None /\ manual_override_end_time' = None)
               => ExpiryAnnounced
      ]_vars

\* A high reading handled after a press had switched the fan on: it was
\* skipped (no automatic alarm went out), and the window of the press stands
\* as the press left it.
C25_Witness ==
    /\ net_pc = "idle"
    /\ RestoredStatus = "OFF"
    /\ relay_status = "ON"
    /\ last_temperature = THi
    /\ sensor_data_count = 1
    /\ Len(published) = 3
    /\ published[3].payload = ManualAlarm("ON", "OFF")
    /\ manual_override_active
    /\ manual_override_end_time = timers[1].wake

\* --------------------------------------------------------------------- C26
\* C26: in automatic mode the evaluation is idempotent per reading.  Once a
\* reading has been evaluated, the same reading evaluated again on the state
\* it left changes nothing, so two deliveries in a row cause at most one
\* transition and one RelayCommand/alarm pair; and no reading switches the
\* relay ON from OFF and also OFF from ON.
C26_EvaluationIdempotent ==
    [][(SensorEvaluated /\ ~manual_override_active)
       => /\ Hysteresis(relay_status', last_temperature, last_humidity).new_status
                 = relay_status'
          /\ Len(Handed) <= 2
          /\ ~(/\ Hysteresis("OFF", last_temperature, last_humidity).new_status = "ON"
               /\ Hysteresis("ON", last_temperature, last_humidity).new_status = "OFF")
      ]_vars

\* The same hot reading delivered a second time on a first start: the only
\* reading that gives the temperature reason alone has switched the fan on
\* with one RelayCommand/alarm pair, and it has come in again and is about to
\* be evaluated on the state it left.
C26_Witness ==
    /\ net_pc = "hysteresis"
    /\ boot_rows = 0
    /\ Started = {}
    /\ sensor_data_count = 2
    /\ <<last_temperature, last_humidity>> = <<THi, HLo>>
    /\ relay_status = "ON"
    /\ alarms = <<AutoAlarm("ON", TempHighReason)>>
    /\ Len(published) = 3

\* --------------------------------------------------------------------- C27
\* Positions of the RelayCommands in the log of messages handed to the bus.
RelayCommands == {k \in 1..Len(published) : published[k].topic = TOPIC_RELAY}

\* C27: while the bus is connected and the network thread is between
\* messages, the RelayCommand handed to the bus last (it is never older than
\* the last connect, which hands one itself) carries the current
\* relay_status.
C27_LastCommandIsState ==
    (is_connected /\ net_pc = "idle")
        => /\ RelayCommands /= {}
           /\ \A k \in RelayCommands :
                  (\A j \in RelayCommands : j <= k)
                      => published[k].payload = <<relay_status>>

\* After a press and its expiry: the last RelayCommand is the one of the
\* press, two alarms have followed it, and it still names the relay state.
C27_Witness ==
    /\ is_connected
    /\ net_pc = "idle"
    /\ timers[1].pc = "done"
    /\ RelayCommands = {1, 2}
    /\ Len(published) = 4
    /\ published[4].payload = ExpiryAlarm
    /\ published[2].payload = <<relay_status>>
    /\ relay_status /= RestoredStatus

\* --------------------------------------------------------------------- C28
\* No press handler and no expiry callback is between two of its writes.
Quiescent == net_pc = "idle" /\ \A i \in TimerIds : ~InCallback(i)

\* C28: manual_override_active is true exactly when manual_override_end_time
\* is set.  Stated for the states in which every handler and callback that
\* has started has also finished, whatever their interleaving was.
C28_FlagIffEndTime ==
    Quiescent => (manual_override_active <=> manual_override_end_time /= None)

\* --------------------------------------------------------------------- C29
\* An expiry thread comes back from its sleep, finds the override inactive
\* and ends.
ExpiryFoundInactive ==
    \E i \in TimerIds : timers[i].pc = "sleep" /\ timers'[i].pc = "done"

\* C29: each end of an override raises one 'Manual override expired' alarm.
\* Of the expiry callbacks pending, one per press, only one clears a given
\* active window and raises the alarm: a callback that clears the flag finds
\* it set.  A callback that finds the override inactive changes nothing and
\* emits nothing.
C29_OneAlarmPerEnd ==
    [][ /\ ExpiryCleared => manual_override_active
        /\ ExpiryFoundInactive
               => /\ Handed = << >>
                  /\ UNCHANGED <<relay_status, override_vars, alarm_count, alarms>>
      ]_vars

\* The part that holds: a callback that finds the override inactive changes
\* nothing and emits nothing.
C29_InactiveCallbackSilent ==
    [][ExpiryFoundInactive
           => /\ Handed = << >>
              /\ UNCHANGED <<relay_status, override_vars, alarm_count, alarms>>]_vars

\* --------------------------------------------------------------------- C30
\* Transition alarms handed to the bus (one per transition, as handlers run
\* only while connected), and transition alarms stored since the start.
TransitionAlarmsHanded ==
    {k \in 1..Len(published) :
        published[k].topic = TOPIC_ALARM /\ published[k].payload /= ExpiryAlarm}

TransitionAlarmsStored ==
    {i \in (boot_rows + 1)..Len(alarms) : alarms[i] /= ExpiryAlarm}

EveryTransitionStored ==
    Cardinality(TransitionAlarmsStored) = Cardinality(TransitionAlarmsHanded)

\* C30: persist, then restore.  Between messages, if the alarm of every
\* transition since the start was stored, _get_last_relay_state run on the
\* alarms table as it stands returns the relay state the engine holds,
\* whichever transitions (automatic ON or OFF, toggle to ON or to OFF) were
\* made and whatever 'override expired' alarms were stored among them.
C30_RestartRestoresState ==
    (net_pc = "idle" /\ EveryTransitionStored)
        => GetLastRelayState(alarms, TRUE) = relay_status

\* A toggle and its expiry, both stored: the newest row is the 'override
\* expired' alarm, and the state to restore is the one the toggle left,
\* which is not the one this run started with.
C30_Witness ==
    /\ net_pc = "idle"
    /\ EveryTransitionStored
    /\ Len(alarms) = boot_rows + 2
    /\ alarms[Len(alarms)] = ExpiryAlarm
    /\ IsTransitionAlarm(alarms[Len(alarms) - 1])
    /\ relay_status /= RestoredStatus

\* --------------------------------------------------------------------- C31
\* A JSON object without its temperature or without its humidity.
Incomplete(payload) ==
    payload.json /\ (payload.temp.k = "absent" \/ payload.hum.k = "absent")

ReadingOf(payload) == <<ParseSensor(payload).temperature, ParseSensor(payload).humidity>>

\* A reading that only an incomplete message leaves in the last-reading
\* fields.
OnlyFromIncomplete(reading) ==
    /\ \E payload \in SensorPayloads :
           Incomplete(payload) /\ ParseSensor(payload).ok /\ ReadingOf(payload) = reading
    /\ \A payload \in SensorPayloads :
           (ParseSensor(payload).ok /\ ReadingOf(payload) = reading) => Incomplete(payload)

\* C31: a sensor message that is valid JSON but lacks the temperature or the
\* humidity causes no relay transition: the evaluation that follows it
\* changes neither relay_status nor what has been handed to the bus.
C31_IncompleteNoTransition ==
    [][(SensorEvaluated /\ OnlyFromIncomplete(<<last_temperature, last_humidity>>))
           => relay_status' = relay_status /\ published' = published]_vars

\* --------------------------------------------------------------------- C32
\* C32: relay_status is "ON" or "OFF" in every reachable state, from the
\* restore at start on, and every RelayCommand handed to the bus says "ON" or
\* "OFF".
C32_RelayTwoValued ==
    /\ relay_status \in {"ON", "OFF"}
    /\ \A k \in 1..Len(published) :
           published[k].topic = TOPIC_RELAY
               => published[k].payload \in {<<"ON">>, <<"OFF">>}

\* A start that restored ON from the alarms table, after which a press, its
\* expiry and a sensor reading were handled: commands of both values have
\* gone out.
C32_Witness ==
    /\ net_pc = "idle"
    /\ boot_rows > 0
    /\ RestoredStatus = "ON"
    /\ timers[1].pc = "done"
    /\ sensor_data_count > 0
    /\ \E k \in 1..Len(published) : published[k] = RelayMessage("ON", MQTT_ERR_SUCCESS)
    /\ \E k \in 1..Len(published) : published[k] = RelayMessage("OFF", MQTT_ERR_SUCCESS)

\* --------------------------------------------------------------------- C33
\* The command a delivered message carries, as the emulator reads it.
IsCommand(msg) == msg.utf8 /\ Decode(msg) \in {OnText, OffText}

\* The most recent command among the first i messages delivered; OFF when
\* there is none.
RECURSIVE LastCommand(_, _)
LastCommand(log, i) ==
    IF i = 0 THEN "OFF"
    ELSE IF IsCommand(log[i]) THEN HandleRelayCommand("OFF", Decode(log[i]))
    ELSE LastCommand(log, i - 1)

\* C33: in the relay emulator, whatever was received and whenever,
\* fan_status is the most recent ON or OFF command received, or OFF when none
\* was.  A message the one-second duplicate filter drops (it decodes, and is
\* not counted) would not have changed fan_status, and a message that is no
\* command leaves fan_status as it was.
C33_FanFollowsLastCommand ==
    [][Len(received') = Len(received) + 1
          => LET msg == received'[Len(received')] IN
             /\ fan_status' = LastCommand(received', Len(received'))
             /\ (msg.utf8 /\ command_count' = command_count)
                    => HandleRelayCommand(fan_status, Decode(msg)) = fan_status
             /\ ~IsCommand(msg) => fan_status' = fan_status
      ]_vars

\* ON, then the same command in lower case inside the window, which the
\* filter dropped, then OFF: two commands were counted and the fan is off.
C33_Witness ==
    /\ Len(received) = 3
    /\ received[1].text = OnText
    /\ received[2].text = <<" ", "o", "n", "\n">>
    /\ received[3].text = OffText
    /\ command_count = 2
    /\ relay_clock < DuplicateWindow
    /\ fan_status = "OFF"

====
